---- MODULE Spec2Model ----
(***************************************************************************)
(* Resume evaluation engine: EnhancedResumeAnalyzer.analyze_resume         *)
(* (src/python/enhanced_analyzer.py).  A document is represented by what   *)
(* the regular expressions of the detectors find in it (header lines,      *)
(* bullets, date matches, buzzword hits, counts); the detectors, the score *)
(* aggregator and the criteria synthesizer are computed as the code        *)
(* computes them.                                                          *)
(*                                                                         *)
(* Numbers: Python floats are modelled as exact fixed-point rationals with *)
(* denominator Scale (a score s is stored as s * Scale).                   *)
(***************************************************************************)
EXTENDS Integers, Sequences, FiniteSets, TLC

VARIABLES
    input_kind,   \* what the caller passes as text: a non-empty str, "", or no str
    doc,          \* the text, given by what the detectors' patterns find in it
    pc,           \* position in analyze_resume
    analysis,     \* the analysis dictionary
    final_score,  \* analysis['final_score']
    criteria,     \* analysis['criteria']
    error,        \* the exception analyze_resume has raised, or "none"
    hash_seed,    \* the interpreter's string hashing, as the order it gives sets
    reports,      \* the reports of the calls made so far (two-run specification)
    line,         \* the argument of a call of identify_section
    header,       \* what that call returned, "pending" before it returns
    explicit_headers,  \* what detect_explicit_headers_only finds in the text
    result        \* the object resume_scorer.main prints, <<>> before it does

vars == <<input_kind, doc, pc, analysis, final_score, criteria, error, hash_seed, reports,
          line, header, explicit_headers, result>>

\* one call of analyze_resume
call == <<input_kind, doc, pc, analysis, final_score, criteria, error>>

\* one call of identify_section
lineCall == <<line, header>>

\* one run of resume_scorer.main, beside the call of analyze_resume it makes
mainRun == <<explicit_headers, result>>

\* what belongs to the process and to the caller, not to one call
process == <<hash_seed, reports>>

(***************************************************************************)
(* Bounds of the model                                                     *)
(***************************************************************************)
\* longest list of non-empty lines looked at by the section detector
MaxLines == 3
\* most bullet lines of a document
MaxBullets == 3
\* most date matches of a document
MaxDates == 3
\* most distinct buzzwords found per severity tier
MaxPerTier == 3

\* words of a line given to identify_section
MaxWords == 5
\* first lines of a document read by the summary fallback
MaxTopLines == 5
\* bullets of a document whose verb percentages are computed in binary64
MaxVerbBullets == 11

(***************************************************************************)
(* Arithmetic helpers                                                      *)
(***************************************************************************)
Min(a, b) == IF a <= b THEN a ELSE b

Max(a, b) == IF a >= b THEN a ELSE b

RECURSIVE Gcd(_, _)
Gcd(a, b) == IF b = 0 THEN a ELSE Gcd(b, a % b)

Lcm(a, b) == (a * b) \div Gcd(a, b)

RECURSIVE LcmUpTo(_)
LcmUpTo(n) == IF n <= 1 THEN 1 ELSE Lcm(n, LcmUpTo(n - 1))

\* denominator of the fixed-point numbers: bullet ratios (x / total_bullets),
\* the quantity bonus (bullet_count / 8) and the mean of four ATS factors
Scale == 4 * Lcm(8, LcmUpTo(MaxBullets))

\* Python int(n / d) for d > 0: truncation toward zero
Trunc(n, d) == IF n >= 0 THEN n \div d ELSE -((-n) \div d)

\* Python round(n / d) for n >= 0, d > 0: nearest integer, ties to even
RoundHalfEven(n, d) ==
    LET q == n \div d
        r == n % d
    IN  IF 2 * r < d THEN q
        ELSE IF 2 * r > d THEN q + 1
        ELSE IF q % 2 = 0 THEN q ELSE q + 1

RECURSIVE SumSeq(_)
SumSeq(s) == IF s = <<>> THEN 0 ELSE s[1] + SumSeq(Tail(s))

RECURSIVE SetToSeq(_)
SetToSeq(S) ==
    IF S = {} THEN <<>>
    ELSE LET x == CHOOSE y \in S : TRUE IN <<x>> \o SetToSeq(S \ {x})

Range(s) == {s[i] : i \in 1..Len(s)}

\* first occurrences of a list, in order (dict / Counter key order)
RECURSIVE Dedup(_)
Dedup(s) ==
    IF s = <<>> THEN <<>>
    ELSE LET front == Dedup(SubSeq(s, 1, Len(s) - 1))
             last == s[Len(s)]
         IN  IF last \in Range(front) THEN front ELSE Append(front, last)

Count(s, x) == Cardinality({i \in 1..Len(s) : s[i] = x})

\* Python sorted(list, key=...): stable, ascending by key[x]
RECURSIVE InsertByKey(_, _, _)
InsertByKey(sorted, x, key) ==
    IF sorted = <<>> THEN <<x>>
    ELSE IF key[sorted[Len(sorted)]] <= key[x] THEN Append(sorted, x)
    ELSE Append(InsertByKey(SubSeq(sorted, 1, Len(sorted) - 1), x, key),
                sorted[Len(sorted)])

RECURSIVE StableSort(_, _)
StableSort(s, key) ==
    IF s = <<>> THEN <<>>
    ELSE InsertByKey(StableSort(SubSeq(s, 1, Len(s) - 1), key), s[Len(s)], key)

(***************************************************************************)
(* Section detector                                                        *)
(***************************************************************************)
SectionNames == {"contact", "summary", "experience", "education", "skills",
                 "projects", "certifications", "languages", "awards"}

logical_order == <<"contact", "summary", "experience", "education", "skills",
                   "projects", "certifications", "languages", "awards">>

required_sections == <<"contact", "experience", "education", "skills">>

optional_sections == <<"projects", "certifications", "languages", "awards">>

\* list.index(section) in logical_order
LogicalIndex(section) ==
    (CHOOSE i \in 1..Len(logical_order) : logical_order[i] = section) - 1

\* A line of the document is given by what identify_section returns for it:
\* a section name, or "none" for a line that is no header.
LineKinds == SectionNames \cup {"none"}

\* The position overwritten by every later header line of the section.
FirstLineOverwritten(lines, section) ==
    (CHOOSE i \in 1..Len(lines) :
        /\ lines[i] = section
        /\ \A j \in (i + 1)..Len(lines) : lines[j] # section) - 1

\* index (from 0) of the first line identified as the section
FirstLine(lines, section) ==
    (CHOOSE i \in 1..Len(lines) :
        /\ lines[i] = section
        /\ \A j \in 1..(i - 1) : lines[j] # section) - 1

\* A line as identify_section sees it:
\*   length_ok    2 <= len(line) <= 60
\*   contact_info an e-mail, phone number or contact label is found
\*   exact        the section one of whose exact keywords the line equals
\*   is_caps      the line is upper case
\*   words        len(line.split())
\*   contains     the sections one of whose section_patterns keywords occurs
\*   degree_term  gpa, bachelor, master, degree, 'university of', class or
\*                semester occurs
\*   prefix       the section one of whose special patterns matches at the start
FirstInOrder(S) ==
    IF S = {} THEN "none"
    ELSE logical_order[CHOOSE i \in 1..Len(logical_order) :
                          /\ logical_order[i] \in S
                          /\ \A j \in 1..(i - 1) : logical_order[j] \notin S]

identify_section(l) ==
    LET partial == {sec \in l.contains : ~(sec = "education" /\ l.degree_term)}
    IN  IF ~l.length_ok THEN "none"
        ELSE IF l.contact_info THEN "contact"
        ELSE IF l.exact # "none" THEN l.exact
        ELSE IF ((l.is_caps /\ l.words <= 4) \/ l.words <= 2) /\ partial # {}
             THEN FirstInOrder(partial)
        ELSE l.prefix

analyze_section_order(sections, positions) ==
    LET names == Dedup(sections)
        logical_positions == [s \in Range(names) |-> LogicalIndex(s)]
        position_key == [s \in Range(names) |->
                            IF s \in DOMAIN positions THEN positions[s] ELSE 0]
        actual_order == StableSort(names, position_key)
        expected_order == StableSort(names, logical_positions)
        issues == IF actual_order # expected_order
                  THEN <<"Section order is not optimal">> ELSE <<>>
    IN  [issues |-> issues, is_logical |-> Len(issues) = 0]

\* lines: the non-empty lines; infer: which content indicators the text matches
analyze_sections(lines, infer) ==
    LET headers == SelectSeq(lines, LAMBDA l : l # "none")
        pos1 == [s \in Range(headers) |-> FirstLine(lines, s)]
        addContact == "contact" \notin Range(headers) /\ infer.contact
        det1 == IF addContact THEN <<"contact">> \o headers ELSE headers
        pos2 == IF addContact
                THEN [s \in DOMAIN pos1 \cup {"contact"} |->
                        IF s = "contact" THEN 0 ELSE pos1[s]]
                ELSE pos1
        addEducation == "education" \notin Range(det1) /\ infer.education
        det2 == IF addEducation THEN Append(det1, "education") ELSE det1
        pos3 == IF addEducation
                THEN [s \in DOMAIN pos2 \cup {"education"} |->
                        IF s = "education" THEN Len(det2) ELSE pos2[s]]
                ELSE pos2
        addSkills == "skills" \notin Range(det2) /\ infer.skills
        det3 == IF addSkills THEN Append(det2, "skills") ELSE det2
        pos4 == IF addSkills
                THEN [s \in DOMAIN pos3 \cup {"skills"} |->
                        IF s = "skills" THEN Len(det3) ELSE pos3[s]]
                ELSE pos3
        addProjects == "projects" \notin Range(det3) /\ infer.projects
        detected_sections == IF addProjects THEN Append(det3, "projects") ELSE det3
        section_positions ==
            IF addProjects
            THEN [s \in DOMAIN pos4 \cup {"projects"} |->
                    IF s = "projects" THEN Len(detected_sections) ELSE pos4[s]]
            ELSE pos4
    IN  [detected_sections |-> Range(detected_sections),
         missing_required |->
            SelectSeq(required_sections, LAMBDA s : s \notin Range(detected_sections)),
         present_optional |->
            SelectSeq(optional_sections, LAMBDA s : s \in Range(detected_sections)),
         duplicated_sections |->
            SelectSeq(Dedup(detected_sections),
                      LAMBDA s : Count(detected_sections, s) > 1),
         order_analysis |-> analyze_section_order(detected_sections, section_positions),
         section_positions |-> section_positions]

(***************************************************************************)
(* Readability: textstat's flesch_reading_ease is an external formula; its *)
(* value (any real, also negative or above 100) is an input of the model.  *)
(***************************************************************************)
analyze_readability(flesch) == [flesch_score |-> flesch]

(***************************************************************************)
(* Writing quality                                                         *)
(***************************************************************************)
calculate_professionalism_score(informal, vague, passive, pronouns) ==
    Max(100 - informal * 5 - vague * 3 - Min(passive * 2, 20) - Min(pronouns * 1, 15), 0)

\* w: how many informal words / vague phrases of the lists occur, and the
\* numbers of passive-voice and pronoun matches
analyze_writing_quality(w) ==
    [informal_words |-> w.informal,
     vague_phrases |-> w.vague,
     passive_voice_count |-> w.passive,
     pronoun_count |-> w.pronouns,
     professionalism_score |->
        calculate_professionalism_score(w.informal, w.vague, w.passive, w.pronouns)]

(***************************************************************************)
(* Bullets.  A bullet line is [marker, text]; the text (the captured rest  *)
(* of the line) is given by the class of its first word and by the impact  *)
(* pattern categories it matches.                                          *)
(***************************************************************************)
GlyphMarkers == {"glyph_round", "glyph_square"}

Markers == GlyphMarkers \cup {"dash", "numbered", "arrow"}

StrongCategories == {"leadership", "achievement", "development", "improvement", "analysis"}

ImpactPatterns == {"percentages", "dollar_amounts", "large_numbers", "time_saved",
                   "performance_metrics", "team_sizes", "customer_metrics", "project_scope"}

\* texts captured by the four bullet patterns, pattern after pattern
ExtractBullets(lines) ==
    LET texts(ms) == [i \in 1..Len(SelectSeq(lines, LAMBDA b : b.marker \in ms)) |->
                        SelectSeq(lines, LAMBDA b : b.marker \in ms)[i].text]
    IN  texts(GlyphMarkers) \o texts({"dash"}) \o texts({"numbered"}) \o texts({"arrow"})

\* The score left as the sum comes out, neither bound applied.
calculate_action_verb_scoreUnclamped(strong_pct, weak_pct, diversity_score, bullet_count) ==
    IF bullet_count = 0 THEN 0
    ELSE (strong_pct * 8) \div 10 + (diversity_score * 15) \div 100
         + (Min(bullet_count, 8) * 5 * Scale) \div 8 - (weak_pct * 3) \div 10

calculate_action_verb_score(strong_pct, weak_pct, diversity_score, bullet_count) ==
    IF bullet_count = 0 THEN 0
    ELSE LET base_score == (strong_pct * 8) \div 10
             diversity_bonus == (diversity_score * 15) \div 100
             weak_penalty == (weak_pct * 3) \div 10
             quantity_bonus == (Min(bullet_count, 8) * 5 * Scale) \div 8
             score == base_score + diversity_bonus + quantity_bonus - weak_penalty
         IN  Max(Min(score, 100 * Scale), 0)

analyze_action_verbs(lines) ==
    LET bullets == Dedup(ExtractBullets(lines))
        strong_verb_bullets == SelectSeq(bullets, LAMBDA b : b.first \in StrongCategories)
        weak_verb_bullets == SelectSeq(bullets, LAMBDA b : b.first = "weak")
        no_verb_bullets ==
            SelectSeq(bullets, LAMBDA b : b.first \notin StrongCategories \cup {"weak"})
        verb_categories_used ==
            [c \in StrongCategories |->
                Cardinality({i \in 1..Len(bullets) : bullets[i].first = c})]
        total_bullets == Len(bullets)
        strong_count == Len(strong_verb_bullets)
        weak_count == Len(weak_verb_bullets)
        strong_percentage == (strong_count * 100 * Scale) \div Max(total_bullets, 1)
        weak_percentage == (weak_count * 100 * Scale) \div Max(total_bullets, 1)
        categories_used_count ==
            Cardinality({c \in StrongCategories : verb_categories_used[c] > 0})
        diversity_score ==
            (categories_used_count * 100 * Scale) \div Cardinality(StrongCategories)
    IN  [total_bullets |-> total_bullets,
         strong_verb_count |-> strong_count,
         weak_verb_count |-> weak_count,
         no_verb_count |-> Len(no_verb_bullets),
         strong_percentage |-> strong_percentage,
         weak_percentage |-> weak_percentage,
         diversity_score |-> diversity_score,
         categories_used |-> verb_categories_used,
         action_verb_score |->
            calculate_action_verb_score(strong_percentage, weak_percentage,
                                        diversity_score, total_bullets)]

\* A bullet counted as quantified only when exactly one category matches.
HasMetricsSingle(bullet) == Cardinality(bullet.text.patterns) = 1

\* has_metrics: some impact pattern category matches the bullet
HasMetrics(bullet) == bullet.text.patterns # {}

\* The percentage taken over one bullet more than there are.
QuantificationPercentageOffByOne(quantified_count, total_bullets) ==
    (quantified_count * 100 * Scale) \div (total_bullets + 1)

QuantificationPercentage(quantified_count, total_bullets) ==
    IF total_bullets > 0
    THEN (quantified_count * 100 * Scale) \div total_bullets
    ELSE 0

analyze_quantification_enhanced(lines) ==
    LET bullets == SelectSeq(lines, LAMBDA b : b.marker \in GlyphMarkers)
        quantified_bullets == SelectSeq(bullets, HasMetrics)
        total_bullets == Len(bullets)
        quantification_percentage ==
            QuantificationPercentage(Len(quantified_bullets), total_bullets)
    IN  [total_bullets |-> total_bullets,
         quantified_count |-> Len(quantified_bullets),
         quantification_percentage |-> quantification_percentage,
         meets_threshold |-> quantification_percentage >= 30 * Scale]

(***************************************************************************)
(* Skills                                                                  *)
(***************************************************************************)
\* The two ratio bounds taken as inclusive.
analyze_enhanced_skill_balanceInclusive(total_technical, total_soft) ==
    LET total_skills == total_technical + total_soft
    IN  IF total_skills = 0 THEN "no_skills"
        ELSE IF total_technical = 0 THEN "no_technical"
        ELSE IF total_soft = 0 THEN "no_soft"
        ELSE IF total_technical * 100 >= 85 * total_skills THEN "tech_heavy"
        ELSE IF total_technical * 10 <= 3 * total_skills THEN "soft_heavy"
        ELSE "balanced"

analyze_enhanced_skill_balance(total_technical, total_soft) ==
    LET total_skills == total_technical + total_soft
    IN  IF total_skills = 0 THEN "no_skills"
        ELSE IF total_technical = 0 THEN "no_technical"
        ELSE IF total_soft = 0 THEN "no_soft"
        ELSE IF total_technical * 100 > 85 * total_skills THEN "tech_heavy"
        ELSE IF total_technical * 10 < 3 * total_skills THEN "soft_heavy"
        ELSE "balanced"

\* s: how many technical / soft skill keywords occur in the text
analyze_skills_enhanced(s) ==
    [total_technical_skills |-> s.technical,
     total_soft_skills |-> s.soft,
     skill_balance |-> [balance |-> analyze_enhanced_skill_balance(s.technical, s.soft)]]

(***************************************************************************)
(* Chronology.  A date match is [format_type, has_year, year]: has_year    *)
(* tells whether the pattern that matched has a group named year.          *)
(* The document holds its dates in reading order, each [kind, year, end]:  *)
(*   abbreviated_month  "Jan 2021"                                         *)
(*   numeric            "03/2019"                                          *)
(*   year_range         "2023 - present" (end = 0) or "2019 - 2021"        *)
(*   isolated_year      "2023"                                             *)
(***************************************************************************)
DateFormats == {"Month_Year", "Numeric_Short", "Year_Range", "Other"}

\* those of self.date_patterns that match a date of one of these kinds, in
\* the order of the list
date_patterns ==
    <<"abbreviated_month", "numeric", "year_range", "employment_duration",
      "isolated_year">>

classify_date_format(kind) ==
    CASE kind = "abbreviated_month" -> "Month_Year"
      [] kind = "numeric" -> "Numeric_Short"
      [] kind = "year_range" -> "Year_Range"
      [] OTHER -> "Other"

\* re.finditer(pattern, ...) within one date of the document
finditer(pattern, d) ==
    CASE pattern = "isolated_year" ->
            <<[format_type |-> "Other", has_year |-> TRUE, year |-> d.year]>>
            \o (IF d.end # 0
                THEN <<[format_type |-> "Other", has_year |-> TRUE, year |-> d.end]>>
                ELSE <<>>)
      [] pattern = "employment_duration" ->
            IF d.kind = "year_range" /\ d.end # 0
            THEN <<[format_type |-> classify_date_format(d.kind),
                    has_year |-> FALSE, year |-> 0]>>
            ELSE <<>>
      [] OTHER ->
            IF d.kind = pattern
            THEN <<[format_type |-> classify_date_format(d.kind),
                    has_year |-> TRUE, year |-> d.year]>>
            ELSE <<>>

RECURSIVE ConcatAll(_)
ConcatAll(seqs) ==
    IF seqs = <<>> THEN <<>> ELSE Head(seqs) \o ConcatAll(Tail(seqs))

\* the loop over the patterns, and under it the loop over each pattern's matches
DateRanges(dates) ==
    ConcatAll([p \in 1..Len(date_patterns) |->
        ConcatAll([i \in 1..Len(dates) |-> finditer(date_patterns[p], dates[i])])])

check_chronological_order(date_ranges) ==
    LET withYear == SelectSeq(date_ranges, LAMBDA d : d.has_year)
        years == [i \in 1..Len(withYear) |-> withYear[i].year]
        is_descending == \A i \in 1..(Len(years) - 1) : years[i] >= years[i + 1]
    IN  IF Len(years) > 1 /\ ~is_descending
        THEN <<"Dates may not be in reverse chronological order (most recent first)">>
        ELSE <<>>

\* at most the first three undated job-title lines are reported
check_missing_dates(undated) == Min(undated, 3)

analyze_chronology_enhanced(c) ==
    LET date_ranges == DateRanges(c.dates)
        date_formats == {date_ranges[i].format_type : i \in 1..Len(date_ranges)}
        format_consistency == Cardinality(date_formats) <= 2
        missing_dates == check_missing_dates(c.undated)
        order_issues == check_chronological_order(date_ranges)
    IN  IF Len(date_ranges) = 0
        THEN [total_date_ranges |-> 0,
              format_consistency |-> FALSE,
              missing_dates |-> missing_dates,
              chronological_order_issues |->
                  <<"Cannot verify date order - no dates detected">>,
              has_dates |-> FALSE,
              severity |-> "critical"]
        ELSE [total_date_ranges |-> Len(date_ranges),
              format_consistency |-> format_consistency,
              missing_dates |-> missing_dates,
              chronological_order_issues |-> order_issues,
              has_dates |-> TRUE,
              severity |-> IF format_consistency /\ missing_dates = 0 /\ order_issues = <<>>
                           THEN "low" ELSE "medium"]

(***************************************************************************)
(* Summary.  s.header: a summary header line exists; s.words: word count   *)
(* of the block taken as the summary (the lines after the header, or the   *)
(* block inferred from the top of the document); s.generic: how many       *)
(* generic phrases it contains; s.skill_kw, s.metric: whether it has a     *)
(* skill/domain keyword, an impact pattern.                                *)
(* s.top: the first non-empty lines of the document, each [words,          *)
(* header_like], header_like telling whether identify_section names a      *)
(* section for the line; read only when no summary header exists, and      *)
(* s.words then counts nothing.                                            *)
(***************************************************************************)
\* The block taken from the second line on, whatever the number of lines.
candidate_blockAfterFirst(top) ==
    LET rest == SubSeq(top, 2, Len(top))
        headers == {j \in 1..Len(rest) : rest[j].header_like}
        upto == IF headers = {} THEN Len(rest)
                ELSE (CHOOSE j \in headers : \A k \in headers : j <= k) - 1
    IN  SubSeq(rest, 1, Min(upto, 3))

\* the fallback's loop: from start_index on, up to the first header-like
\* line, at most three lines
candidate_block(top) ==
    LET start_index == IF Len(top) > 1 THEN 1 ELSE 0
        rest == SubSeq(top, start_index + 1, Len(top))
        headers == {j \in 1..Len(rest) : rest[j].header_like}
        upto == IF headers = {} THEN Len(rest)
                ELSE (CHOOSE j \in headers : \A k \in headers : j <= k) - 1
    IN  SubSeq(rest, 1, Min(upto, 3))

WordCount(block) == SumSeq([i \in 1..Len(block) |-> block[i].words])

\* The quality score reported as the deductions leave it.
analyze_summary_qualityUnclamped(s) ==
    LET word_count == IF s.header THEN s.words ELSE WordCount(candidate_block(s.top))
    IN  IF ~s.header /\ ~(15 <= word_count /\ word_count <= 80)
        THEN [has_summary |-> FALSE, quality_score |-> 0, word_count |-> 0]
        ELSE [has_summary |-> TRUE,
              quality_score |->
                  100 - (IF word_count < 20 THEN 20 ELSE IF word_count > 100 THEN 15 ELSE 0)
                  - s.generic * 10 - (IF s.skill_kw THEN 0 ELSE 15)
                  - (IF s.metric THEN 0 ELSE 10),
              word_count |-> word_count]

analyze_summary_quality(s) ==
    LET word_count == IF s.header THEN s.words ELSE WordCount(candidate_block(s.top))
    IN  IF ~s.header /\ ~(15 <= word_count /\ word_count <= 80)
        THEN [has_summary |-> FALSE, quality_score |-> 0, word_count |-> 0]
        ELSE LET length_penalty == IF word_count < 20 THEN 20
                                   ELSE IF word_count > 100 THEN 15 ELSE 0
                 quality_score == 100 - length_penalty - s.generic * 10
                                  - (IF s.skill_kw THEN 0 ELSE 15)
                                  - (IF s.metric THEN 0 ELSE 10)
             IN  [has_summary |-> TRUE,
                  quality_score |-> Max(quality_score, 0),
                  word_count |-> word_count]

(***************************************************************************)
(* Buzzwords.  b[tier].words: distinct buzzwords of the tier's list found; *)
(* b[tier].occurrences: the sum of their occurrence counts; b.pattern:     *)
(* matches of the buzzword patterns.                                       *)
(***************************************************************************)
SeverityTiers == {"critical", "high", "medium", "low"}

\* Every severity given the default penalty.
get_severity_penaltyFlat(severity) == 5

get_severity_penalty(severity) ==
    CASE severity = "critical" -> 15
      [] severity = "high" -> 10
      [] severity = "medium" -> 6
      [] severity = "low" -> 3
      [] severity = "pattern" -> 8
      [] OTHER -> 5

analyze_buzzwords(b) ==
    LET list_penalty(tier) == get_severity_penalty(tier) * b[tier].occurrences
        total_penalty == list_penalty("critical") + list_penalty("high")
                         + list_penalty("medium") + list_penalty("low")
                         + 8 * b.pattern
        found == b["critical"].words + b["high"].words + b["medium"].words
                 + b["low"].words + b.pattern
    IN  [total_buzzwords |-> found,
         critical_found |-> b["critical"].words,
         total_penalty |-> total_penalty,
         buzzword_score |-> Max(100 - total_penalty, 0)]

(***************************************************************************)
(* Unnecessary sections                                                    *)
(***************************************************************************)
OutdatedTypes == {"references", "objective", "personal_info", "hobbies_interests",
                  "salary_expectations"}

OutdatedSeverity(type) ==
    CASE type \in {"references", "objective"} -> "medium"
      [] type \in {"personal_info", "salary_expectations"} -> "high"
      [] OTHER -> "low"

\* Every severity given the default weight.
severity_weightsFlat(severity) == 1

severity_weights(severity) ==
    CASE severity = "high" -> 3
      [] severity = "medium" -> 2
      [] severity = "low" -> 1
      [] OTHER -> 1

\* found: the outdated section types found in the text
analyze_unnecessary_sections(found) ==
    LET found_sections == SetToSeq(found)
        severity_score ==
            SumSeq([i \in 1..Len(found_sections) |->
                        severity_weights(OutdatedSeverity(found_sections[i]))])
        modernization_score == Max(100 - severity_score * 10, 0)
    IN  [unnecessary_sections_found |-> found,
         total_issues |-> Len(found_sections),
         modernization_score |-> modernization_score,
         has_outdated_sections |-> Len(found_sections) > 0]

(***************************************************************************)
(* Formatting                                                              *)
(***************************************************************************)
calculate_formatting_score(bullet_consistency, date_consistency) ==
    100 - (IF ~bullet_consistency THEN 25 ELSE 0) - (IF ~date_consistency THEN 25 ELSE 0)

\* lines: the bullet lines; date_formats: number of distinct normalized date formats
analyze_formatting(lines, date_formats) ==
    LET bullet_styles == {lines[i].marker : i \in {j \in 1..Len(lines) :
                                                     lines[j].marker \in GlyphMarkers}}
        bullet_consistency == Cardinality(bullet_styles) <= 1
        date_consistency == date_formats <= 2
    IN  [bullet_consistency |-> bullet_consistency,
         date_consistency |-> date_consistency,
         formatting_score |->
            calculate_formatting_score(bullet_consistency, date_consistency)]

(***************************************************************************)
(* Score aggregator.  Weights are in hundredths; category scores are       *)
(* fixed-point with denominator Scale; the weighted sum has denominator    *)
(* 100 * Scale.                                                            *)
(***************************************************************************)
\* A table whose entries do not add up to 100 hundredths.
weightsSkewed ==
    [quantify_impact |-> 12, dates |-> 8, summary |-> 6, action_verbs |-> 10,
     skills_section |-> 10, structure |-> 12, ats_compatibility |-> 25,
     writing_quality |-> 8, chronology |-> 6, unnecessary_sections |-> 4]

weights ==
    [quantify_impact |-> 12, dates |-> 8, summary |-> 6, action_verbs |-> 10,
     skills_section |-> 10, structure |-> 12, ats_compatibility |-> 24,
     writing_quality |-> 8, chronology |-> 6, unnecessary_sections |-> 4]

\* Bands with strict comparisons: a score on a threshold falls one band lower.
get_score_gradeStrict(score) ==
    IF score > 90 * 100 * Scale THEN "A"
    ELSE IF score > 80 * 100 * Scale THEN "B"
    ELSE IF score > 70 * 100 * Scale THEN "C"
    ELSE IF score > 60 * 100 * Scale THEN "D"
    ELSE "F"

get_score_grade(score) ==
    IF score >= 90 * 100 * Scale THEN "A"
    ELSE IF score >= 80 * 100 * Scale THEN "B"
    ELSE IF score >= 70 * 100 * Scale THEN "C"
    ELSE IF score >= 60 * 100 * Scale THEN "D"
    ELSE "F"

\* The dates score decided by format and order alone, has_dates not consulted.
DatesScoreUngated(dates_analysis) ==
    IF dates_analysis.format_consistency
       /\ dates_analysis.chronological_order_issues = <<>> THEN 100
    ELSE IF dates_analysis.format_consistency THEN 60
    ELSE 40

DatesScore(dates_analysis) ==
    IF dates_analysis.has_dates = FALSE THEN 0
    ELSE IF dates_analysis.format_consistency
            /\ dates_analysis.chronological_order_issues = <<>> THEN 100
    ELSE IF dates_analysis.format_consistency THEN 60
    ELSE 40

\* The composite taking the buzzword detector's penalty score in place of
\* the count-derived term.
AtsCompatibilityPenalty(a) ==
    LET ats_factors ==
            << Min(a.formatting.formatting_score, 100) * Scale,
               Min(Max(a.readability.flesch_score, 0), 100 * Scale),
               a.buzzwords_analysis.buzzword_score * Scale,
               Max(100 - Len(a.sections.missing_required) * 25, 0) * Scale >>
    IN  SumSeq(ats_factors) \div Len(ats_factors)

AtsCompatibility(a) ==
    LET ats_factors ==
            << Min(a.formatting.formatting_score, 100) * Scale,
               Min(Max(a.readability.flesch_score, 0), 100 * Scale),
               Max(100 - a.buzzwords_analysis.total_buzzwords * 10, 0) * Scale,
               Max(100 - Len(a.sections.missing_required) * 25, 0) * Scale >>
    IN  SumSeq(ats_factors) \div Len(ats_factors)

StructureScore(sections) ==
    Max(100 - Len(sections.missing_required) * 20
            - Len(sections.duplicated_sections) * 10
            - (IF ~sections.order_analysis.is_logical THEN 15 ELSE 0), 0)

\* The quantification score without its cap at 100.
QuantifyImpactScoreUnclamped(quantification) ==
    quantification.quantification_percentage * 2

QuantifyImpactScore(quantification) ==
    Min(quantification.quantification_percentage * 2, 100 * Scale)

\* The readability score without its clamp to [0, 100].
ReadabilityScoreUnclamped(readability) == readability.flesch_score

ReadabilityScore(readability) ==
    Min(Max(readability.flesch_score, 0), 100 * Scale)

CategoryScores(a) ==
    [quantify_impact |-> QuantifyImpactScore(a.quantification),
     dates |-> DatesScore(a.chronology) * Scale,
     summary |-> IF ~a.summary_analysis.has_summary THEN 0
                 ELSE Min(a.summary_analysis.quality_score, 100) * Scale,
     action_verbs |-> a.action_verbs.action_verb_score,
     buzzwords |-> a.buzzwords_analysis.buzzword_score * Scale,
     skills_section |->
        Min((a.skills_analysis.total_technical_skills
             + a.skills_analysis.total_soft_skills) * 6, 100) * Scale,
     structure |-> StructureScore(a.sections) * Scale,
     ats_compatibility |-> AtsCompatibility(a),
     writing_quality |-> a.writing_quality.professionalism_score * Scale,
     readability |-> ReadabilityScore(a.readability),
     formatting |-> a.formatting.formatting_score * Scale,
     chronology |->
        Max(100 - Len(a.chronology.chronological_order_issues) * 15, 0) * Scale,
     unnecessary_sections |-> a.unnecessary_sections.modernization_score * Scale]

\* A sum that leaves the last weighted category out.
WeightedSumSkipping(scores, w) ==
    LET keys == SetToSeq(DOMAIN w \ {"unnecessary_sections"})
    IN  SumSeq([i \in 1..Len(keys) |-> scores[keys[i]] * w[keys[i]]])

\* A sum into which the readability category score enters directly.
WeightedSumDisplay(scores, w) ==
    LET keys == SetToSeq(DOMAIN w)
    IN  SumSeq([i \in 1..Len(keys) |-> scores[keys[i]] * w[keys[i]]])
        + scores.readability

\* sum(scores[criterion] * weights[criterion] for criterion in weights)
WeightedSum(scores, w) ==
    LET keys == SetToSeq(DOMAIN w)
    IN  SumSeq([i \in 1..Len(keys) |-> scores[keys[i]] * w[keys[i]]])

\* Python round(n / Scale): the nearest integer.  A float holds n / Scale only
\* approximately, so a value halfway between two integers goes to either.
RoundFloat(n) ==
    IF (2 * n) % Scale = 0 /\ n % Scale # 0
    THEN {n \div Scale, n \div Scale + 1}
    ELSE {RoundHalfEven(n, Scale)}

\* The results calculate_final_score can return; final_score is kept in
\* hundredths: round(final_score, 2) * 100.
calculate_final_score(a) ==
    LET scores == CategoryScores(a)
        final == WeightedSum(scores, weights)
    IN  {[category_scores |-> scores,
          weights |-> weights,
          final_score |-> rounded,
          grade |-> get_score_grade(final)] : rounded \in RoundFloat(final)}

(***************************************************************************)
(* Criteria synthesizer.  A criterion is [name, score]; the description    *)
(* text chosen next to the score does not enter any score.                 *)
(***************************************************************************)
\* min(5, int(value / 20)) for a fixed-point value
FiveScale(value) == Min(5, Trunc(value, 20 * Scale))

DateCriterion(dates_analysis) ==
    IF dates_analysis.has_dates = FALSE THEN 0
    ELSE IF dates_analysis.format_consistency
            /\ dates_analysis.chronological_order_issues = <<>> THEN 5
    ELSE IF dates_analysis.format_consistency THEN 3
    ELSE 2

SkillsCriterion(skills_analysis) ==
    LET total_skills == skills_analysis.total_technical_skills
                        + skills_analysis.total_soft_skills
    IN  IF total_skills = 0 THEN 0
        ELSE IF total_skills < 5 THEN 2
        ELSE IF skills_analysis.skill_balance.balance = "balanced" THEN 5
        ELSE 3

ExperienceProjectsCriterion(sections_analysis) ==
    LET has_experience == "experience" \in sections_analysis.detected_sections
        has_projects == "projects" \in sections_analysis.detected_sections
    IN  IF ~has_experience /\ ~has_projects THEN 0
        ELSE IF has_experience /\ has_projects THEN 5
        ELSE IF has_experience THEN 4
        ELSE 3

AtsCriterion(a) ==
    LET formatting_score == a.formatting.formatting_score
        readability_score == a.readability.flesch_score
        buzzword_count == a.buzzwords_analysis.total_buzzwords
        missing_count == Len(a.sections.missing_required)
        ats_score_factors ==
            << IF formatting_score >= 90 THEN 5
               ELSE IF formatting_score >= 70 THEN 4
               ELSE IF formatting_score >= 50 THEN 3 ELSE 2,
               IF readability_score >= 60 * Scale THEN 5
               ELSE IF readability_score >= 40 * Scale THEN 4
               ELSE IF readability_score >= 20 * Scale THEN 3 ELSE 2,
               IF buzzword_count <= 2 THEN 5
               ELSE IF buzzword_count <= 4 THEN 4
               ELSE IF buzzword_count <= 6 THEN 3 ELSE 2,
               IF missing_count = 0 THEN 5
               ELSE IF missing_count = 1 THEN 4
               ELSE IF missing_count = 2 THEN 3 ELSE 2 >>
    IN  RoundHalfEven(SumSeq(ats_score_factors), Len(ats_score_factors))

\* The readability criterion without its clamp to 1..5.
ReadabilityCriterionUnclamped(readability) ==
    Trunc(readability.flesch_score, 20 * Scale)

ReadabilityCriterion(readability) ==
    Min(5, Max(1, Trunc(readability.flesch_score, 20 * Scale)))

ChronologyCriterion(chronology) ==
    LET chronology_issues == Len(chronology.chronological_order_issues)
    IN  Min(5, Max(1, Trunc(100 - chronology_issues * 15, 20)))

generate_criteria_summary(a) ==
    << [name |-> "Quantify Impact",
        score |-> FiveScale(a.quantification.quantification_percentage)],
       [name |-> "Dates", score |-> DateCriterion(a.chronology)],
       [name |-> "Summary",
        score |-> IF ~a.summary_analysis.has_summary THEN 0
                  ELSE FiveScale(a.summary_analysis.quality_score * Scale)],
       [name |-> "Action Verbs", score |-> FiveScale(a.action_verbs.action_verb_score)],
       [name |-> "Buzzwords",
        score |-> FiveScale(a.buzzwords_analysis.buzzword_score * Scale)],
       [name |-> "Skills Section", score |-> SkillsCriterion(a.skills_analysis)],
       [name |-> "Experience & Projects",
        score |-> ExperienceProjectsCriterion(a.sections)],
       [name |-> "ATS Compatibility", score |-> AtsCriterion(a)],
       [name |-> "Writing Quality",
        score |-> FiveScale(a.writing_quality.professionalism_score * Scale)],
       [name |-> "Readability",
        score |-> ReadabilityCriterion(a.readability)],
       [name |-> "Formatting",
        score |-> FiveScale(a.formatting.formatting_score * Scale)],
       [name |-> "Chronology", score |-> ChronologyCriterion(a.chronology)],
       [name |-> "Unnecessary Sections",
        score |-> FiveScale(a.unnecessary_sections.modernization_score * Scale)] >>

(***************************************************************************)
(* analyze_resume: the detectors, then the final score, then the criteria  *)
(***************************************************************************)
RunDetectors(d) ==
    [sections |-> analyze_sections(d.sections.lines, d.sections.infer),
     readability |-> analyze_readability(d.flesch),
     writing_quality |-> analyze_writing_quality(d.writing),
     action_verbs |-> analyze_action_verbs(d.bullets),
     quantification |-> analyze_quantification_enhanced(d.bullets),
     skills_analysis |-> analyze_skills_enhanced(d.skills),
     chronology |-> analyze_chronology_enhanced(d.chronology),
     summary_analysis |-> analyze_summary_quality(d.summary),
     buzzwords_analysis |-> analyze_buzzwords(d.buzzwords),
     unnecessary_sections |-> analyze_unnecessary_sections(d.outdated),
     formatting |-> analyze_formatting(d.bullets, d.date_formats)]

(***************************************************************************)
(* Documents.  Every field is drawn from a small set of values that the    *)
(* detectors' patterns can find in a text.                                 *)
(***************************************************************************)
SeqsUpTo(S, n) == UNION {[1..k -> S] : k \in 0..n}

SampleLineKinds == {"none", "contact", "experience", "education", "skills", "projects"}

InferNone == [contact |-> FALSE, education |-> FALSE, skills |-> FALSE, projects |-> FALSE]

InferAll == [contact |-> TRUE, education |-> TRUE, skills |-> TRUE, projects |-> TRUE]

InferSamples ==
    {InferNone, InferAll,
     [InferNone EXCEPT !.contact = TRUE],
     [InferNone EXCEPT !.education = TRUE],
     [InferNone EXCEPT !.skills = TRUE, !.projects = TRUE]}

SectionInputs == [lines : SeqsUpTo(SampleLineKinds, MaxLines), infer : InferSamples]

\* longer documents with few kinds of lines: a header can lie well below the
\* top of the text
SparseLineKinds == {"none", "experience", "skills"}

SparseSectionInputs ==
    [lines : [1..(MaxLines + 1) -> SparseLineKinds], infer : InferSamples]

SectionCorners ==
    {[lines |-> <<>>, infer |-> InferNone],
     [lines |-> <<"contact", "experience", "education">>, infer |-> InferAll],
     [lines |-> <<"skills", "experience", "experience">>, infer |-> InferNone]}

\* readability values, fixed-point: negative, boundaries of the bands, above 100
\* 60 - 1/24 is a readability that leaves the weighted sum of a document
\* without sections and bullets a quarter of a hundredth under 60
FleschValues ==
    {-37 * Scale, -(Scale \div 2), 0, 20 * Scale - Scale \div 2, 20 * Scale,
     50 * Scale, 60 * Scale - Scale \div 24, 75 * Scale, 100 * Scale,
     121 * Scale + Scale \div 2}

FleschCorners == {-37 * Scale, 121 * Scale + Scale \div 2}

WritingInputs ==
    [informal : {0, 1, 10}, vague : {0, 6}, passive : {0, 3, 10, 11}, pronouns : {0, 15, 16}]

WritingCorners ==
    {[informal |-> 0, vague |-> 0, passive |-> 0, pronouns |-> 0],
     [informal |-> 10, vague |-> 6, passive |-> 11, pronouns |-> 16]}

TextLed == [first |-> "leadership", patterns |-> {"team_sizes"}]

TextImproved == [first |-> "improvement", patterns |-> {"percentages", "performance_metrics"}]

TextResponsible == [first |-> "weak", patterns |-> {}]

TextOther == [first |-> "other", patterns |-> {}]

SampleBulletLines ==
    [marker : {"glyph_round", "glyph_square", "dash"},
     text : {TextLed, TextImproved, TextResponsible, TextOther}]

BulletInputs == SeqsUpTo(SampleBulletLines, MaxBullets)

BulletCorners ==
    {<<>>,
     <<[marker |-> "glyph_round", text |-> TextLed],
       [marker |-> "glyph_round", text |-> TextImproved]>>,
     <<[marker |-> "glyph_round", text |-> TextResponsible],
       [marker |-> "glyph_square", text |-> TextOther],
       [marker |-> "numbered", text |-> TextResponsible],
       [marker |-> "arrow", text |-> TextOther]>>}

SkillInputs == [technical : {0, 1, 3, 4, 6, 17, 40}, soft : {0, 1, 3, 7, 10}]

SkillCorners == {[technical |-> 0, soft |-> 0], [technical |-> 12, soft |-> 5]}

SampleDates ==
    {[kind |-> "abbreviated_month", year |-> 2021, end |-> 0],
     [kind |-> "numeric", year |-> 2019, end |-> 0],
     [kind |-> "year_range", year |-> 2023, end |-> 0],
     [kind |-> "year_range", year |-> 2019, end |-> 2021],
     [kind |-> "isolated_year", year |-> 2023, end |-> 0]}

ChronologyInputs == [dates : SeqsUpTo(SampleDates, MaxDates), undated : {0, 1, 4}]

ChronologyCorners ==
    {[dates |-> <<>>, undated |-> 4],
     [dates |-> <<[kind |-> "year_range", year |-> 2023, end |-> 0],
                  [kind |-> "isolated_year", year |-> 2023, end |-> 0]>>,
      undated |-> 0]}

\* a name or title line, and a line that identify_section takes for a header
NameLine == [words |-> 2, header_like |-> FALSE]

HeaderLine == [words |-> 2, header_like |-> TRUE]

\* a summary of w words: under a summary header, or as the one line between
\* the name line and the end of the document
SummaryOf(has_header, w, generic, skill_kw, metric) ==
    [header |-> has_header, words |-> IF has_header THEN w ELSE 0, generic |-> generic,
     skill_kw |-> skill_kw, metric |-> metric,
     top |-> IF has_header \/ w = 0 THEN <<NameLine, HeaderLine>>
             ELSE <<NameLine, [words |-> w, header_like |-> FALSE]>>]

SummaryInputs ==
    {SummaryOf(x.header, x.words, x.generic, x.skill_kw, x.metric) :
        x \in {s \in [header : BOOLEAN, words : {0, 14, 15, 19, 20, 80, 81, 100, 101},
                      generic : {0, 1, 11}, skill_kw : BOOLEAN, metric : BOOLEAN] :
                  /\ 2 * s.generic <= s.words
                  /\ s.words = 0 => ~s.skill_kw /\ ~s.metric}}

\* documents without a summary header, by their first lines; a header-like
\* line is at most 60 characters long
SampleTopLines ==
    {HeaderLine,
     [words |-> 7, header_like |-> FALSE],
     [words |-> 8, header_like |-> FALSE],
     [words |-> 40, header_like |-> FALSE]}

TopInputs ==
    [header : {FALSE}, words : {0}, generic : {0}, skill_kw : {FALSE}, metric : {FALSE},
     top : SeqsUpTo(SampleTopLines, MaxTopLines)]

SummaryCorners ==
    {[header |-> FALSE, words |-> 0, generic |-> 0, skill_kw |-> FALSE, metric |-> FALSE,
      top |-> <<NameLine>>],
     SummaryOf(TRUE, 40, 0, TRUE, TRUE)}

\* c, h, m, l distinct buzzwords of the four lists, each occurring `each` times
BuzzwordHits(c, h, m, l, p, each) ==
    [critical |-> [words |-> c, occurrences |-> c * each],
     high |-> [words |-> h, occurrences |-> h * each],
     medium |-> [words |-> m, occurrences |-> m * each],
     low |-> [words |-> l, occurrences |-> l * each],
     pattern |-> p]

BuzzwordInputs ==
    {BuzzwordHits(c, h, m, l, p, each) :
        c \in 0..MaxPerTier, h \in 0..MaxPerTier, m \in 0..MaxPerTier,
        l \in 0..MaxPerTier, p \in 0..MaxPerTier, each \in 1..2}

BuzzwordCorners ==
    {BuzzwordHits(0, 0, 0, 0, 0, 1),
     BuzzwordHits(MaxPerTier, MaxPerTier, MaxPerTier, MaxPerTier, MaxPerTier, 2)}

BuzzwordFew ==
    {BuzzwordHits(n, n, n, n, n, 1) : n \in 0..MaxPerTier}
    \cup {BuzzwordHits(1, 0, 0, 0, 0, 1), BuzzwordHits(0, 0, 0, 1, 0, 1)}

OutdatedInputs == SUBSET OutdatedTypes

OutdatedCorners == {{}, OutdatedTypes}

DateFormatCounts == 0..3

DateFormatCorners == {0, 3}

CornerDocs ==
    [sections : SectionCorners, flesch : FleschCorners, writing : WritingCorners,
     bullets : BulletCorners, skills : SkillCorners, chronology : ChronologyCorners,
     summary : SummaryCorners, buzzwords : BuzzwordCorners, outdated : OutdatedCorners,
     date_formats : DateFormatCorners]

\* the empty document, and a document on which every detector is satisfied
WorstDoc ==
    [sections |-> [lines |-> <<>>, infer |-> InferNone],
     flesch |-> -37 * Scale,
     writing |-> [informal |-> 10, vague |-> 6, passive |-> 11, pronouns |-> 16],
     bullets |-> <<>>,
     skills |-> [technical |-> 0, soft |-> 0],
     chronology |-> [dates |-> <<>>, undated |-> 4],
     summary |-> [header |-> FALSE, words |-> 0, generic |-> 0,
                  skill_kw |-> FALSE, metric |-> FALSE, top |-> <<NameLine>>],
     buzzwords |-> BuzzwordHits(MaxPerTier, MaxPerTier, MaxPerTier, MaxPerTier,
                                MaxPerTier, 2),
     outdated |-> OutdatedTypes,
     date_formats |-> 3]

BestDoc ==
    [sections |-> [lines |-> <<"contact", "experience", "education">>, infer |-> InferAll],
     flesch |-> 121 * Scale + Scale \div 2,
     writing |-> [informal |-> 0, vague |-> 0, passive |-> 0, pronouns |-> 0],
     bullets |-> <<[marker |-> "glyph_round", text |-> TextLed],
                   [marker |-> "glyph_round", text |-> TextImproved]>>,
     skills |-> [technical |-> 12, soft |-> 5],
     chronology |->
        [dates |-> <<[kind |-> "year_range", year |-> 2023, end |-> 0],
                     [kind |-> "isolated_year", year |-> 2023, end |-> 0]>>,
         undated |-> 0],
     summary |-> SummaryOf(TRUE, 40, 0, TRUE, TRUE),
     buzzwords |-> BuzzwordHits(0, 0, 0, 0, 0, 1),
     outdated |-> {},
     date_formats |-> 0]

BaseDocs == {WorstDoc, BestDoc}

\* one detector's input swept over its whole set, the others as in a base document
IsSweepDoc(d) ==
    \E b \in BaseDocs :
        \/ \E x \in SectionInputs : d = [b EXCEPT !.sections = x]
        \/ \E x \in SparseSectionInputs : d = [b EXCEPT !.sections = x]
        \/ \E x \in FleschValues : d = [b EXCEPT !.flesch = x]
        \/ \E x \in WritingInputs : d = [b EXCEPT !.writing = x]
        \/ \E x \in BulletInputs : d = [b EXCEPT !.bullets = x]
        \/ \E x \in SkillInputs : d = [b EXCEPT !.skills = x]
        \/ \E x \in ChronologyInputs : d = [b EXCEPT !.chronology = x]
        \/ \E x \in SummaryInputs : d = [b EXCEPT !.summary = x]
        \/ \E x \in TopInputs : d = [b EXCEPT !.summary = x]
        \/ \E x \in BuzzwordInputs : d = [b EXCEPT !.buzzwords = x]
        \/ \E x \in OutdatedInputs : d = [b EXCEPT !.outdated = x]
        \/ \E x \in DateFormatCounts : d = [b EXCEPT !.date_formats = x]

\* the four inputs of the ATS composite swept together
AtsSections ==
    SectionCorners \cup {[lines |-> <<"experience">>, infer |-> InferNone],
                         [lines |-> <<"contact", "skills">>, infer |-> InferNone]}

IsAtsDoc(d) ==
    \E s \in AtsSections, f \in FleschValues, z \in BuzzwordFew,
       u \in BulletCorners, n \in DateFormatCorners :
        d = [BestDoc EXCEPT !.sections = s, !.flesch = f, !.buzzwords = z,
                            !.bullets = u, !.date_formats = n]

(***************************************************************************)
(* The pipeline                                                            *)
(***************************************************************************)
\* Values that are no str, by type name.
NonStringKinds == {"NoneType", "int", "list", "bytes"}

\* The empty text: no pattern matches anything.  What textstat returns for it
\* depends on the installed version (a value, or an exception that
\* analyze_readability turns into 50).
EmptyTextDocs ==
    {[sections |-> [lines |-> <<>>, infer |-> InferNone],
      flesch |-> f,
      writing |-> [informal |-> 0, vague |-> 0, passive |-> 0, pronouns |-> 0],
      bullets |-> <<>>,
      skills |-> [technical |-> 0, soft |-> 0],
      chronology |-> [dates |-> <<>>, undated |-> 0],
      summary |-> [header |-> FALSE, words |-> 0, generic |-> 0,
                   skill_kw |-> FALSE, metric |-> FALSE, top |-> <<>>],
      buzzwords |-> BuzzwordHits(0, 0, 0, 0, 0, 1),
      outdated |-> {},
      date_formats |-> 0] : f \in {0, 50 * Scale, 121 * Scale + Scale \div 2}}

InitInput ==
    \/ /\ input_kind = "non_empty"
       /\ \/ doc \in CornerDocs
          \/ IsSweepDoc(doc)
          \/ IsAtsDoc(doc)
    \/ /\ input_kind = "empty"
       /\ doc \in EmptyTextDocs
    \/ /\ input_kind \in NonStringKinds
       /\ doc = <<>>

Init ==
    /\ InitInput
    /\ pc = "start"
    /\ analysis = <<>>
    /\ final_score = <<>>
    /\ criteria = <<>>
    /\ error = "none"
    /\ hash_seed = logical_order
    /\ reports = <<>>
    /\ line = <<>>
    /\ header = "pending"
    /\ explicit_headers = {}
    /\ result = <<>>

\* analyze_resume, lines 167-184: the detectors fill the analysis
AnalyzeDetectors ==
    /\ pc = "start"
    /\ input_kind \in {"non_empty", "empty"}
    /\ analysis' = RunDetectors(doc)
    /\ pc' = "detected"
    /\ UNCHANGED <<input_kind, doc, final_score, criteria, error, process, lineCall, mainRun>>

\* analyze_resume, line 168: the first detector calls text.split('\n'), which
\* a value that is no str does not have (bytes has it, and rejects the str
\* argument)
RaiseOnNonString ==
    /\ pc = "start"
    /\ input_kind \in NonStringKinds
    /\ error' = IF input_kind = "bytes" THEN "TypeError" ELSE "AttributeError"
    /\ pc' = "raised"
    /\ UNCHANGED <<input_kind, doc, analysis, final_score, criteria, process, lineCall, mainRun>>

\* analyze_resume, line 187
CalculateFinalScore ==
    /\ pc = "detected"
    /\ final_score' \in calculate_final_score(analysis)
    /\ pc' = "scored"
    /\ UNCHANGED <<input_kind, doc, analysis, criteria, error, process, lineCall, mainRun>>

\* analyze_resume, line 190
GenerateCriteriaSummary ==
    /\ pc = "scored"
    /\ criteria' = generate_criteria_summary(analysis)
    /\ pc' = "done"
    /\ UNCHANGED <<input_kind, doc, analysis, final_score, error, process, lineCall, mainRun>>

Next ==
    \/ AnalyzeDetectors
    \/ RaiseOnNonString
    \/ CalculateFinalScore
    \/ GenerateCriteriaSummary

Spec == Init /\ [][Next]_vars

TypeOK ==
    /\ pc \in {"start", "detected", "scored", "done", "raised"}
    /\ input_kind \in {"non_empty", "empty"} \cup NonStringKinds
    /\ pc \in {"start", "raised"} => analysis = <<>>
    /\ pc \in {"start", "detected", "raised"} => final_score = <<>>
    /\ pc # "done" => criteria = <<>>
    /\ error # "none" <=> pc = "raised"

(***************************************************************************)
(* Two runs of the pipeline on the same text.  resume_scorer.py is run as  *)
(* a script, one interpreter per run; CPython draws its string hash seed   *)
(* when the interpreter starts, and the order in which a set of strings is *)
(* iterated follows the hashes.                                            *)
(***************************************************************************)
Reverse(s) == [i \in 1..Len(s) |-> s[Len(s) + 1 - i]]

\* orders in which an interpreter can iterate a set of section names
HashOrders ==
    {logical_order, Reverse(logical_order),
     SubSeq(logical_order, 4, Len(logical_order)) \o SubSeq(logical_order, 1, 3)}

\* list(set(...)) under the interpreter's hashing
ListOfSet(S, order) == SelectSeq(order, LAMBDA x : x \in S)

\* The report of analyze_resume, a function of the text and of the hashing.
\* The score is reported by its category scores and grade (the rounding of
\* the final score is the same computation in both runs).
Report(d, order) ==
    LET a == RunDetectors(d)
    IN  [sections |->
            [a.sections EXCEPT
                !.detected_sections = ListOfSet(a.sections.detected_sections, order)],
         category_scores |-> CategoryScores(a),
         grade |-> get_score_grade(WeightedSum(CategoryScores(a), weights)),
         criteria |-> generate_criteria_summary(a)]

RunDocs == {[BestDoc EXCEPT !.sections = x] : x \in SectionInputs}

InitRuns ==
    /\ input_kind = "non_empty"
    /\ doc \in RunDocs
    /\ pc = "start"
    /\ analysis = <<>>
    /\ final_score = <<>>
    /\ criteria = <<>>
    /\ error = "none"
    /\ hash_seed \in HashOrders
    /\ reports = <<>>
    /\ line = <<>>
    /\ header = "pending"
    /\ explicit_headers = {}
    /\ result = <<>>

\* one call of analyze_resume on the text, its report kept by the caller
AnalyzeResume ==
    /\ Len(reports) < 2
    /\ reports' = Append(reports, Report(doc, hash_seed))
    /\ UNCHANGED <<call, hash_seed, lineCall, mainRun>>

\* the second run starts a new interpreter
RestartInterpreter ==
    /\ Len(reports) = 1
    /\ hash_seed' \in HashOrders \ {hash_seed}
    /\ UNCHANGED <<call, reports, lineCall, mainRun>>

NextRuns == AnalyzeResume \/ RestartInterpreter

SpecRuns == InitRuns /\ [][NextRuns]_vars

(***************************************************************************)
(* resume_scorer.main.  parse_pdf and parse_docx return the text through   *)
(* clean_text, which turns every run of white space, line ends included,   *)
(* into one space: the text main analyses is a single line.  Of the object *)
(* main prints, the line feedback, the recommendations and the statistics  *)
(* are left out; none of them enters the score.                            *)
(***************************************************************************)
InputKinds == {"no_argument", "unsupported_type", "parse_failed", "parsed"}

get_performance_tier(total_score) ==
    IF total_score >= 85 * 100 THEN "Exceptional"
    ELSE IF total_score >= 70 * 100 THEN "Strong"
    ELSE IF total_score >= 55 * 100 THEN "Good"
    ELSE IF total_score >= 40 * 100 THEN "Developing"
    ELSE "Needs Work"

\* The gate asking for an Experience header alone.
missing_experience_projectsStrict(headers) == "experience" \notin headers

\* main, lines 328-332
missing_experience_projects(headers) ==
    LET has_experience_header == "experience" \in headers
        has_projects_header == "projects" \in headers
    IN  ~has_experience_header /\ ~has_projects_header

\* single-line texts: at most one line for identify_section, at most one
\* bullet, no summary header above a block, one line at the top
MainDocs ==
    {[b EXCEPT !.sections = [lines |-> l, infer |-> i], !.bullets = bl,
               !.summary = [header |-> FALSE, words |-> 0, generic |-> 0,
                            skill_kw |-> FALSE, metric |-> FALSE, top |-> <<t>>]] :
        b \in {BestDoc, WorstDoc},
        l \in {<<"none">>, <<"experience">>, <<"contact">>},
        i \in InferSamples,
        bl \in SeqsUpTo(SampleBulletLines, 1),
        t \in SampleTopLines}

InitMain ==
    /\ input_kind \in InputKinds
    /\ IF input_kind = "parsed"
       THEN /\ doc \in MainDocs
            /\ explicit_headers \in SUBSET {"experience", "projects", "skills"}
       ELSE /\ doc = <<>>
            /\ explicit_headers = {}
    /\ pc = "start"
    /\ analysis = <<>>
    /\ final_score = <<>>
    /\ criteria = <<>>
    /\ error = "none"
    /\ hash_seed = logical_order
    /\ reports = <<>>
    /\ line = <<>>
    /\ header = "pending"
    /\ result = <<>>

\* main, lines 296-314: no argument, a file type that is neither .pdf nor
\* .docx, or a parse without success
MainRejectInput ==
    /\ pc = "start"
    /\ input_kind # "parsed"
    /\ result' = [success |-> FALSE,
                  error |-> CASE input_kind = "no_argument" -> "No file path provided"
                              [] input_kind = "unsupported_type" -> "Unsupported file type"
                              [] OTHER -> "parse error",
                  exit_code |-> 1]
    /\ pc' = "exited"
    /\ UNCHANGED <<input_kind, doc, analysis, final_score, criteria, error, process,
                   lineCall, explicit_headers>>

\* main, lines 316-326: the call of analyze_resume on the parsed text
MainAnalyze ==
    /\ pc = "start"
    /\ input_kind = "parsed"
    /\ analysis' = RunDetectors(doc)
    /\ final_score' \in calculate_final_score(RunDetectors(doc))
    /\ criteria' = generate_criteria_summary(RunDetectors(doc))
    /\ pc' = "analyzed"
    /\ UNCHANGED <<input_kind, doc, error, process, lineCall, mainRun>>

\* main, lines 328-342
MainMissingHeaders ==
    /\ pc = "analyzed"
    /\ missing_experience_projects(explicit_headers)
    /\ result' = [success |-> FALSE,
                  error |-> "We could not find an Experience or Projects section",
                  code |-> "missing_experience_projects",
                  exit_code |-> 0]
    /\ pc' = "exited"
    /\ UNCHANGED <<input_kind, doc, analysis, final_score, criteria, error, process,
                   lineCall, explicit_headers>>

\* main, lines 344-387
MainReport ==
    /\ pc = "analyzed"
    /\ ~missing_experience_projects(explicit_headers)
    /\ LET enhanced_total_score == final_score.final_score
           enhanced_breakdown == final_score.category_scores
       IN  result' = [success |-> TRUE,
                      score |-> enhanced_total_score,
                      breakdown |-> enhanced_breakdown,
                      performance_tier |-> get_performance_tier(enhanced_total_score),
                      enhanced_analysis |->
                          [final_score |-> final_score, criteria |-> criteria],
                      exit_code |-> 0]
    /\ pc' = "exited"
    /\ UNCHANGED <<input_kind, doc, analysis, final_score, criteria, error, process,
                   lineCall, explicit_headers>>

NextMain ==
    \/ MainRejectInput
    \/ MainAnalyze
    \/ MainMissingHeaders
    \/ MainReport

SpecMain == InitMain /\ [][NextMain]_vars

(***************************************************************************)
(* resume_scorer.calculate_score, the legacy scorer.  Its input is what    *)
(* nlp_analyzer.analyze_text and keyword_extractor.extract_keywords report *)
(* and what its own word lists find in the raw text:                       *)
(*   found, missing     lengths of sections['found'], sections['missing']  *)
(*   has_all_critical   sections['has_all_critical']                       *)
(*   total_bullets, bullets_with_metrics, bullets_with_strong_verbs        *)
(*   total_keywords     keywords['total_keywords']                         *)
(*   industry_matches   keywords of the best-matching industry found       *)
(*   high_impact, medium_impact, quantifiers, patterns                     *)
(*                      IMPACT_WORDS and achievement patterns found        *)
(*   language_issues    issues of severity 'low' over all bullets          *)
(* Points are integers; intermediate values are kept as fractions.         *)
(***************************************************************************)
\* analyze_text: round(count / total_bullets * 100, 1), in tenths of a percent
Percentage(count, total_bullets) ==
    IF total_bullets > 0 THEN RoundHalfEven(count * 1000, total_bullets) ELSE 0

calculate_industry_relevance(industry_matches) ==
    RoundHalfEven(Min(50, industry_matches * 8), 10)

calculate_achievement_impact(n) ==
    LET impact_score ==
            Min(40, n.high_impact * 8) + Min(30, n.medium_impact * 5)
            + Min(30, n.quantifiers * 4)
            + (IF n.patterns > 0 THEN Min(20, n.patterns * 5) ELSE 0)
    IN  RoundHalfEven(Min(100, impact_score), 10)

calculate_score(n) ==
    LET zero == [ats_compatibility |-> 0, content_quality |-> 0,
                 keyword_optimization |-> 0, structure |-> 0,
                 achievement_impact |-> 0, language_quality |-> 0]
        metrics_percentage == Percentage(n.bullets_with_metrics, n.total_bullets)
        strong_verbs_percentage ==
            Percentage(n.bullets_with_strong_verbs, n.total_bullets)
        structure_score ==
            IF n.total_bullets >= 8 /\ n.total_bullets <= 20 THEN 15
            ELSE IF n.total_bullets > 0 THEN 10 ELSE 0
        \* in tenths of a point
        language_score ==
            IF n.language_issues > 0
            THEN Max(30, 50 - Min(20, n.language_issues * 2)) ELSE 50
        scores ==
            [ats_compatibility |->
                IF n.found + n.missing > 0
                THEN RoundHalfEven(n.found * 25, n.found + n.missing) ELSE 0,
             content_quality |->
                RoundHalfEven(15 * metrics_percentage + 15 * strong_verbs_percentage, 1000),
             keyword_optimization |->
                RoundHalfEven(Min(30, n.total_keywords * 3)
                              + 2 * calculate_industry_relevance(n.industry_matches), 2),
             structure |-> structure_score,
             achievement_impact |-> calculate_achievement_impact(n),
             language_quality |-> RoundHalfEven(language_score, 10)]
        total_score ==
            scores.ats_compatibility + scores.content_quality
            + scores.keyword_optimization + scores.structure
            + scores.achievement_impact + scores.language_quality
    IN  IF ~n.has_all_critical
        THEN [total |-> 0, breakdown |-> zero, critical_failure |-> TRUE]
        ELSE [total |-> total_score, breakdown |-> scores,
              performance_tier |-> get_performance_tier(total_score * 100)]

\* the three required sections are the critical ones: none is missing when
\* all critical ones are found, and found holds at least these three of the
\* seven sections looked for
LegacyInputs ==
    {n \in [found : {0, 2, 3, 7}, missing : {0, 1, 3}, has_all_critical : BOOLEAN,
            total_bullets : {0, 1, 8, 16, 21},
            bullets_with_metrics : {0, 1, 8, 16, 21},
            bullets_with_strong_verbs : {0, 1, 8, 16, 21},
            total_keywords : {0, 1, 3, 10}, industry_matches : {0, 4, 7},
            high_impact : {0, 5}, medium_impact : {0, 6}, quantifiers : {0, 8},
            patterns : {0, 1, 4}, language_issues : {0, 1, 10}] :
        /\ n.has_all_critical <=> n.missing = 0
        /\ n.has_all_critical => n.found >= 3
        /\ n.found + n.missing <= 7
        /\ n.missing = 3 <=> n.found = 0
        /\ n.bullets_with_metrics \in {0, 1, n.total_bullets}
        /\ n.bullets_with_metrics <= n.total_bullets
        /\ n.bullets_with_strong_verbs \in {0, 1, n.total_bullets}
        /\ n.bullets_with_strong_verbs <= n.total_bullets
        /\ n.total_bullets = 0 => n.language_issues = 0}

InitLegacy ==
    /\ input_kind = "parsed"
    /\ doc \in LegacyInputs
    /\ pc = "start"
    /\ analysis = <<>>
    /\ final_score = <<>>
    /\ criteria = <<>>
    /\ error = "none"
    /\ hash_seed = logical_order
    /\ reports = <<>>
    /\ line = <<>>
    /\ header = "pending"
    /\ explicit_headers = {}
    /\ result = <<>>

CalculateScore ==
    /\ pc = "start"
    /\ result' = calculate_score(doc)
    /\ pc' = "scored"
    /\ UNCHANGED <<input_kind, doc, analysis, final_score, criteria, error, process,
                   lineCall, explicit_headers>>

NextLegacy == CalculateScore

SpecLegacy == InitLegacy /\ [][NextLegacy]_vars

(***************************************************************************)
(* analyze_action_verbs, the percentages as the floats they are.  A        *)
(* positive binary64 value is [m, e]: m the 53 bits of its significand,    *)
(* most significant first, m[1] = 1, and e the exponent of its last bit;   *)
(* zero is [m |-> <<>>, e |-> 0].  Every operation rounds to nearest, ties *)
(* to even.                                                                *)
(***************************************************************************)
Zeros(k) == [i \in 1..k |-> 0]

RECURSIVE BitsOf(_)
BitsOf(n) == IF n = 0 THEN <<>> ELSE Append(BitsOf(n \div 2), n % 2)

RECURSIVE StripZeros(_)
StripZeros(bits) ==
    IF bits # <<>> /\ bits[1] = 0 THEN StripZeros(Tail(bits)) ELSE bits

\* a + b for two bit strings of length i, with a carry coming in
RECURSIVE AddBits(_, _, _, _)
AddBits(a, b, i, carry) ==
    IF i = 0 THEN BitsOf(carry)
    ELSE LET t == a[i] + b[i] + carry
         IN  IF t >= 2 THEN Append(AddBits(a, b, i - 1, 1), t - 2)
             ELSE Append(AddBits(a, b, i - 1, 0), t)

\* the binary64 value nearest to bits * 2^e (bits[1] = 1); sticky says that
\* the exact value has further non-zero bits below bits
RoundToDouble(bits, e, sticky) ==
    IF Len(bits) <= 53
    THEN [m |-> bits \o Zeros(53 - Len(bits)), e |-> e - (53 - Len(bits))]
    ELSE LET kept == SubSeq(bits, 1, 53)
             below == SubSeq(bits, 55, Len(bits))
             more == sticky \/ \E i \in 1..Len(below) : below[i] = 1
             up == bits[54] = 1 /\ (more \/ kept[53] = 1)
             sum == IF up THEN AddBits(kept, Zeros(52) \o <<1>>, 53, 0) ELSE kept
             shift == Len(bits) - 53
         IN  IF Len(sum) > 53
             THEN [m |-> SubSeq(sum, 1, 53), e |-> e + shift + 1]
             ELSE [m |-> sum, e |-> e + shift]

\* the first k bits of r / n after the binary point, for 0 <= r < n
RECURSIVE QuotientBits(_, _, _)
QuotientBits(r, n, k) ==
    IF k = 0 THEN <<>>
    ELSE IF 2 * r >= n THEN <<1>> \o QuotientBits(2 * r - n, n, k - 1)
    ELSE <<0>> \o QuotientBits(2 * r, n, k - 1)

RECURSIVE RemainderAfter(_, _, _)
RemainderAfter(r, n, k) ==
    IF k = 0 THEN r
    ELSE IF 2 * r >= n THEN RemainderAfter(2 * r - n, n, k - 1)
    ELSE RemainderAfter(2 * r, n, k - 1)

\* count / total as a float, for 0 <= count <= total, total > 0; 64 quotient
\* bits hold 53 significant ones for every total below 2^10
FloatDiv(count, total) ==
    IF count = 0 THEN [m |-> <<>>, e |-> 0]
    ELSE IF count = total THEN RoundToDouble(<<1>>, 0, FALSE)
    ELSE RoundToDouble(StripZeros(QuotientBits(count, total, 64)), -64,
                       RemainderAfter(count, total, 64) # 0)

\* the bits of m * k, for the bits m[1..i] and a carry coming in
RECURSIVE MulBits(_, _, _, _)
MulBits(m, i, k, carry) ==
    IF i = 0 THEN BitsOf(carry)
    ELSE LET t == m[i] * k + carry
         IN  IF t % 2 = 1 THEN Append(MulBits(m, i - 1, k, t \div 2), 1)
             ELSE Append(MulBits(m, i - 1, k, t \div 2), 0)

\* x * k as a float, k a positive integer
FloatMul(x, k) ==
    IF x.m = <<>> THEN x ELSE RoundToDouble(MulBits(x.m, 53, k, 0), x.e, FALSE)

\* x + y as a float
FloatAdd(x, y) ==
    IF x.m = <<>> THEN y
    ELSE IF y.m = <<>> THEN x
    ELSE LET e == Min(x.e, y.e)
             a == x.m \o Zeros(x.e - e)
             b == y.m \o Zeros(y.e - e)
             n == Max(Len(a), Len(b))
         IN  RoundToDouble(AddBits(Zeros(n - Len(a)) \o a, Zeros(n - Len(b)) \o b, n, 0),
                           e, FALSE)

\* x > k, k a positive integer
FloatExceeds(x, k) ==
    /\ x.m # <<>>
    /\ LET h == RoundToDouble(BitsOf(k), 0, FALSE)
       IN  \/ x.e > h.e
           \/ /\ x.e = h.e
              /\ \E i \in 1..53 : /\ x.m[i] > h.m[i]
                                  /\ \A j \in 1..(i - 1) : x.m[j] = h.m[j]

\* (count / max(total_bullets, 1)) * 100
FloatPercentage(count, total_bullets) ==
    FloatMul(FloatDiv(count, Max(total_bullets, 1)), 100)

\* a bullet text by the class of its first word and the number of the rest of
\* its words: texts of the same class differ in the rest
VerbText(class, rest) == [first |-> class, patterns |-> {}, rest |-> rest]

VerbLines(class, k) ==
    [i \in 1..k |-> [marker |-> "glyph_round", text |-> VerbText(class, i)]]

\* documents of strong, weak and other bullets, a bullet repeated or not
VerbInputs ==
    {[bullets |-> VerbLines(c, n[1]) \o VerbLines("weak", n[2])
                  \o VerbLines("other", n[3])
                  \o (IF again /\ n[1] > 0 THEN VerbLines(c, 1) ELSE <<>>)] :
        n \in {t \in (0..MaxVerbBullets) \X (0..MaxVerbBullets) \X (0..MaxVerbBullets) :
                 t[1] + t[2] + t[3] <= MaxVerbBullets},
        c \in {"leadership", "analysis"}, again \in BOOLEAN}

InitVerbs ==
    /\ input_kind = "non_empty"
    /\ doc \in VerbInputs
    /\ pc = "start"
    /\ analysis = <<>>
    /\ final_score = <<>>
    /\ criteria = <<>>
    /\ error = "none"
    /\ hash_seed = logical_order
    /\ reports = <<>>
    /\ line = <<>>
    /\ header = "pending"
    /\ explicit_headers = {}
    /\ result = <<>>

\* analyze_action_verbs(text): the counts, and the two percentages as floats
AnalyzeActionVerbs ==
    /\ pc = "start"
    /\ LET a == analyze_action_verbs(doc.bullets)
       IN  result' = [total_bullets |-> a.total_bullets,
                      strong_verb_count |-> a.strong_verb_count,
                      weak_verb_count |-> a.weak_verb_count,
                      no_verb_count |-> a.no_verb_count,
                      categories_used |-> a.categories_used,
                      strong_percentage |->
                          FloatPercentage(a.strong_verb_count, a.total_bullets),
                      weak_percentage |->
                          FloatPercentage(a.weak_verb_count, a.total_bullets)]
    /\ pc' = "verbs_analyzed"
    /\ UNCHANGED <<input_kind, doc, analysis, final_score, criteria, error, process,
                   lineCall, explicit_headers>>

NextVerbs == AnalyzeActionVerbs

SpecVerbs == InitVerbs /\ [][NextVerbs]_vars

(***************************************************************************)
(* identify_section on one line                                            *)
(***************************************************************************)
\* lines that a text can hold: an exact keyword has at most two words and,
\* for education, no degree term; a special pattern of a section other than
\* skills starts with one of the section's keywords
LineInputs ==
    {l \in [length_ok : BOOLEAN, contact_info : BOOLEAN,
            exact : {"none", "experience", "education", "skills"},
            is_caps : BOOLEAN, words : 1..MaxWords,
            contains : SUBSET {"summary", "education", "skills", "projects"},
            degree_term : BOOLEAN,
            prefix : {"none", "education", "skills", "projects"}] :
        /\ l.exact # "none" => l.words <= 2
        /\ l.exact = "education" => ~l.degree_term /\ "education" \in l.contains
        /\ l.exact = "skills" => "skills" \in l.contains
        /\ l.prefix = "education" => "education" \in l.contains
        /\ l.prefix = "projects" => "projects" \in l.contains}

InitIdentify ==
    /\ input_kind = "non_empty"
    /\ doc = BestDoc
    /\ pc = "start"
    /\ analysis = <<>>
    /\ final_score = <<>>
    /\ criteria = <<>>
    /\ error = "none"
    /\ hash_seed = logical_order
    /\ reports = <<>>
    /\ line \in LineInputs
    /\ header = "pending"
    /\ explicit_headers = {}
    /\ result = <<>>

IdentifySection ==
    /\ header = "pending"
    /\ header' = identify_section(line)
    /\ UNCHANGED <<call, process, line, mainRun>>

NextIdentify == IdentifySection

SpecIdentify == InitIdentify /\ [][NextIdentify]_vars

(***************************************************************************)
(* Properties                                                              *)
(***************************************************************************)
Scored == pc \in {"scored", "done"}

CriticalSections == {"experience", "skills", "contact"}

WeightedKeys ==
    {"quantify_impact", "dates", "summary", "action_verbs", "skills_section",
     "structure", "ats_compatibility", "writing_quality", "chronology",
     "unnecessary_sections"}

DisplayOnlyKeys == {"readability", "buzzwords", "formatting"}

InRange(x) == 0 <= x /\ x <= 100 * Scale

\* C1: a document in which experience, skills or contact is not detected gets
\* a final score of exactly 0 and the critical-failure flag, whatever the
\* other detectors report.
C1_HardGate ==
    (Scored /\ ~(CriticalSections \subseteq analysis.sections.detected_sections))
        => /\ final_score.final_score = 0
           /\ "critical_failure" \in DOMAIN final_score
           /\ final_score.critical_failure = TRUE

\* C2: for every combination of detector outputs the final score lies in
\* [0, 100] (here in hundredths).
C2_FinalScoreInRange ==
    Scored => 0 <= final_score.final_score /\ final_score.final_score <= 100 * 100

C2_Witness ==
    /\ pc = "scored"
    /\ final_score.final_score > 98 * 100
    /\ analysis.readability.flesch_score > 100 * Scale

\* C3: the weight table is the fixed table .12 .08 .06 .10 .10 .12 .24 .08
\* .06 .04 on every call, and it sums to exactly 1.0 (100 hundredths).
C3_WeightTable ==
    Scored =>
        /\ final_score.weights =
              [quantify_impact |-> 12, dates |-> 8, summary |-> 6, action_verbs |-> 10,
               skills_section |-> 10, structure |-> 12, ats_compatibility |-> 24,
               writing_quality |-> 8, chronology |-> 6, unnecessary_sections |-> 4]
        /\ LET keys == SetToSeq(DOMAIN final_score.weights)
           IN  SumSeq([i \in 1..Len(keys) |-> final_score.weights[keys[i]]]) = 100

C3_Witness ==
    /\ pc = "done"
    /\ Cardinality(DOMAIN final_score.weights) = 10
    /\ doc = WorstDoc

\* C4: the final score is the sum over the ten keys of the weight table of
\* categoryScore[key] * weight[key], reported rounded to 2 decimals; nothing
\* else enters the sum.
C4_WeightedSum ==
    Scored =>
        LET cs == final_score.category_scores
            exact == 12 * cs.quantify_impact + 8 * cs.dates + 6 * cs.summary
                     + 10 * cs.action_verbs + 10 * cs.skills_section
                     + 12 * cs.structure + 24 * cs.ats_compatibility
                     + 8 * cs.writing_quality + 6 * cs.chronology
                     + 4 * cs.unnecessary_sections
            reported == final_score.final_score * Scale
        IN  /\ 2 * (reported - exact) <= Scale
            /\ 2 * (exact - reported) <= Scale

C4_Witness ==
    /\ pc = "scored"
    /\ final_score.category_scores.unnecessary_sections < 100 * Scale
    /\ final_score.category_scores.buzzwords < 100 * Scale
    /\ final_score.final_score > 0

\* C5 as stated: category_scores holds exactly the 10 keys of the weight
\* table, every value in 0..100.
C5_TenKeys ==
    Scored =>
        /\ DOMAIN final_score.category_scores = DOMAIN final_score.weights
        /\ Cardinality(DOMAIN final_score.category_scores) = 10
        /\ \A k \in DOMAIN final_score.category_scores :
              InRange(final_score.category_scores[k])

\* C5 amended: category_scores holds 13 keys, the 10 keys of the weight
\* table and readability, buzzwords and formatting; every value is in [0, 100].
C5_ThirteenKeys ==
    Scored =>
        /\ DOMAIN final_score.category_scores = WeightedKeys \cup DisplayOnlyKeys
        /\ DOMAIN final_score.weights = WeightedKeys
        /\ Cardinality(DOMAIN final_score.category_scores) = 13
        /\ \A k \in DOMAIN final_score.category_scores :
              InRange(final_score.category_scores[k])

C5_Witness ==
    /\ pc = "scored"
    /\ analysis.readability.flesch_score < 0
    /\ final_score.category_scores.readability = 0
    /\ final_score.category_scores.formatting = 50 * Scale

\* Analyses of documents that differ from d only in what the readability,
\* buzzword and formatting detectors find; a is the analysis of d.
DisplayVariants(d, a) ==
    {[a EXCEPT !.readability = analyze_readability(f),
               !.buzzwords_analysis = analyze_buzzwords(z),
               !.formatting = analyze_formatting(d.bullets, n)] :
        f \in {50 * Scale, 75 * Scale},
        z \in {BuzzwordHits(1, 0, 0, 0, 0, 1), BuzzwordHits(0, 0, 0, 1, 0, 1)},
        n \in {0, 3}}

AgreeOnWeighted(cs1, cs2) == \A k \in WeightedKeys : cs1[k] = cs2[k]

DifferOnDisplay(cs1, cs2) == \A k \in DisplayOnlyKeys : cs1[k] # cs2[k]

\* C6: readability, buzzwords and formatting influence the final score only
\* through ats_compatibility: an analysis that agrees with the scored one on
\* ats_compatibility and on the other nine weighted category scores gets the
\* same final score and grade, however its readability, buzzwords and
\* formatting category scores differ.
C6_DisplayScoresOnlyThroughAts ==
    pc = "scored" =>
        \A other \in DisplayVariants(doc, analysis) :
            AgreeOnWeighted(CategoryScores(other), final_score.category_scores)
                => \E r \in calculate_final_score(other) :
                      /\ r.final_score = final_score.final_score
                      /\ r.grade = final_score.grade

C6_Witness ==
    /\ pc = "scored"
    /\ \E other \in DisplayVariants(doc, analysis) :
          LET cs == CategoryScores(other)
          IN  /\ AgreeOnWeighted(cs, final_score.category_scores)
              /\ DifferOnDisplay(cs, final_score.category_scores)

\* the weighted sum recomputed from a returned result, in units 1/(100 * Scale)
RawScore(returned) ==
    LET cs == returned.category_scores
        w == returned.weights
    IN  cs.quantify_impact * w.quantify_impact + cs.dates * w.dates
        + cs.summary * w.summary + cs.action_verbs * w.action_verbs
        + cs.skills_section * w.skills_section + cs.structure * w.structure
        + cs.ats_compatibility * w.ats_compatibility
        + cs.writing_quality * w.writing_quality + cs.chronology * w.chronology
        + cs.unnecessary_sections * w.unnecessary_sections

AtLeast(returned, points) == RawScore(returned) >= points * 100 * Scale

\* C7: the grade is A for a score >= 90, B for >= 80, C for >= 70, D for
\* >= 60 and F otherwise; every score has exactly one grade.
C7_GradeBands ==
    Scored =>
        /\ final_score.grade \in {"A", "B", "C", "D", "F"}
        /\ final_score.grade = "A" <=> AtLeast(final_score, 90)
        /\ final_score.grade = "B" <=> AtLeast(final_score, 80) /\ ~AtLeast(final_score, 90)
        /\ final_score.grade = "C" <=> AtLeast(final_score, 70) /\ ~AtLeast(final_score, 80)
        /\ final_score.grade = "D" <=> AtLeast(final_score, 60) /\ ~AtLeast(final_score, 70)
        /\ final_score.grade = "F" <=> ~AtLeast(final_score, 60)

C7_Witness ==
    /\ pc = "scored"
    /\ RawScore(final_score) = 60 * 100 * Scale
    /\ final_score.grade = "D"

CriteriaNames(cs) == [i \in 1..Len(cs) |-> cs[i].name]

\* C8: generate_criteria_summary returns exactly 12 criteria, with the same
\* fixed, pairwise distinct names in the same order, for every analysis.
C8_TwelveCriteria ==
    pc = "done" =>
        /\ Len(criteria) = 12
        /\ \A i, j \in 1..Len(criteria) : i # j => criteria[i].name # criteria[j].name
        /\ CriteriaNames(criteria) = CriteriaNames(generate_criteria_summary(RunDetectors(BestDoc)))

\* C9: every criterion has an integer score in 0..5 for every combination of
\* detector outputs, negative and above-100 readability and zero bullets
\* included.
C9_CriterionScoreRange ==
    pc = "done" => \A i \in 1..Len(criteria) : criteria[i].score \in 0..5

C9_Witness ==
    /\ pc = "done"
    /\ analysis.readability.flesch_score < 0
    /\ analysis.action_verbs.total_bullets = 0
    /\ \E i \in 1..Len(criteria) : criteria[i].name = "Readability" /\ criteria[i].score = 1

\* C10: the ats_compatibility category score is the unweighted mean of four
\* terms: the formatting score, the readability score clamped to [0, 100],
\* max(100 - 10 * buzzword count, 0) and max(100 - 25 * number of missing
\* required sections, 0).
C10_AtsMeanOfFour ==
    Scored =>
        4 * final_score.category_scores.ats_compatibility =
            analysis.formatting.formatting_score * Scale
            + Min(Max(analysis.readability.flesch_score, 0), 100 * Scale)
            + Max(100 - 10 * analysis.buzzwords_analysis.total_buzzwords, 0) * Scale
            + Max(100 - 25 * Len(analysis.sections.missing_required), 0) * Scale

C10_Witness ==
    /\ pc = "scored"
    /\ analysis.readability.flesch_score > 100 * Scale
    /\ analysis.buzzwords_analysis.total_buzzwords > 10
    /\ Len(analysis.sections.missing_required) > 0
    /\ analysis.formatting.formatting_score < 100

Detected == pc \in {"detected", "scored", "done"}

GlyphLines(lines) == {i \in 1..Len(lines) : lines[i].marker \in GlyphMarkers}

C12_QuantificationMonotonic ==
    pc = "detected" =>
        \A i \in 1..Len(doc.bullets), p \in ImpactPatterns :
            LET more == [doc.bullets EXCEPT ![i].text.patterns = @ \cup {p}]
                q == analyze_quantification_enhanced(more)
            IN  /\ q.total_bullets = analysis.quantification.total_bullets
                /\ q.quantification_percentage
                      >= analysis.quantification.quantification_percentage
                /\ q.quantified_count >= analysis.quantification.quantified_count

C12_Witness ==
    /\ pc = "detected"
    /\ \E i \in GlyphLines(doc.bullets), j \in GlyphLines(doc.bullets) :
          /\ doc.bullets[i].text.patterns = {}
          /\ Cardinality(doc.bullets[j].text.patterns) = 1
    /\ analysis.quantification.quantified_count < analysis.quantification.total_bullets

\* one more occurrence of a listed buzzword of the tier: of a word already
\* found (fresh = 0) or of a word not yet found (fresh = 1)
OneMoreBuzzword(b, tier, fresh) ==
    [b EXCEPT ![tier] = [words |-> @.words + fresh, occurrences |-> @.occurrences + 1]]

\* C13: buzzword_score equals max(100 - total_penalty, 0), total_penalty
\* being the sum of the per-occurrence penalties (critical 15, high 10,
\* medium 6, low 3, pattern 8) of all matches; one more occurrence of any
\* severity never raises the score, and the score is never below 0.
C13_BuzzwordScore ==
    Detected =>
        LET b == doc.buzzwords
            r == analysis.buzzwords_analysis
            penalty == 15 * b.critical.occurrences + 10 * b.high.occurrences
                       + 6 * b.medium.occurrences + 3 * b.low.occurrences
                       + 8 * b.pattern
        IN  /\ r.total_penalty = penalty
            /\ r.buzzword_score = IF penalty < 100 THEN 100 - penalty ELSE 0
            /\ r.buzzword_score >= 0
            /\ \A tier \in SeverityTiers, fresh \in {0, 1} :
                  analyze_buzzwords(OneMoreBuzzword(b, tier, fresh)).buzzword_score
                      <= r.buzzword_score
            /\ analyze_buzzwords([b EXCEPT !.pattern = @ + 1]).buzzword_score
                  <= r.buzzword_score

C13_Witness ==
    /\ pc = "detected"
    /\ \A tier \in SeverityTiers : doc.buzzwords[tier].occurrences > 0
    /\ doc.buzzwords.pattern > 0
    /\ analysis.buzzwords_analysis.total_penalty < 100
    /\ analysis.buzzwords_analysis.buzzword_score > 0

C13_WitnessFloor ==
    /\ pc = "detected"
    /\ analysis.buzzwords_analysis.total_penalty > 100
    /\ analysis.buzzwords_analysis.buzzword_score = 0

\* the lines with one more header line for the section, put after line k
AddHeaderLine(lines, k, section) ==
    SubSeq(lines, 1, k) \o <<section>> \o SubSeq(lines, k + 1, Len(lines))

ExplicitHeaders(lines) == {lines[i] : i \in 1..Len(lines)} \ {"none"}

\* C14: the section order check is invariant under duplicate headers: when
\* the order is judged logical, one more header line for a section that has a
\* header already, anywhere after its first occurrence, still gives
\* is_logical = TRUE and no order issue, also when education, skills or
\* projects are present only by content inference.
C14_OrderInvariantUnderDuplicates ==
    (Detected /\ analysis.sections.order_analysis.is_logical) =>
        \A section \in ExplicitHeaders(doc.sections.lines) :
            \A k \in (FirstLine(doc.sections.lines, section) + 1)..Len(doc.sections.lines) :
                LET more == analyze_sections(
                                AddHeaderLine(doc.sections.lines, k, section),
                                doc.sections.infer)
                IN  /\ more.order_analysis.is_logical
                    /\ more.order_analysis.issues = <<>>

\* C16: the core raises exactly one kind of error, a typed input error for
\* empty or non-string input: for every non-empty text it returns a report and
\* never raises, and for empty or non-string input it raises that input error
\* instead of returning a report.
C16_TypedInputError ==
    /\ error \in {"none", "InputError"}
    /\ input_kind = "non_empty" => error = "none"
    /\ (input_kind # "non_empty" /\ pc # "start") =>
          /\ pc = "raised"
          /\ error = "InputError"

\* C15: running the full pipeline twice on identical input yields identical
\* output, the order of every list in the report included (for example
\* detected_sections); no call leaves state that changes a later call.
C15_TwoRunsIdentical ==
    Len(reports) = 2 => reports[1] = reports[2]

\* C17: every detector that scores bullets works on the same bullet set, the
\* lines matched by any of the marker patterns (glyph, dash or asterisk,
\* numbered, arrow), deduplicated by exact text; in particular the
\* quantification analyzer and the action-verb analyzer count the same number
\* of bullets for every document.
C17_SameBulletSet ==
    Detected =>
        /\ analysis.quantification.total_bullets = analysis.action_verbs.total_bullets
        /\ analysis.quantification.total_bullets
              = Len(Dedup(ExtractBullets(doc.bullets)))

\* C18: analyze_sections keeps at most one canonical position per section
\* name: section_positions[name] is set once, to the index of the first line
\* detected as the section's header, later detections of the name never change
\* it, detected_sections lists each name once, and a name detected more than
\* once appears in duplicated_sections.
C18_OnePositionPerSection ==
    Detected =>
        LET lines == doc.sections.lines
            s == analysis.sections
        IN  /\ DOMAIN s.section_positions = s.detected_sections
            /\ ExplicitHeaders(lines) \subseteq s.detected_sections
            /\ \A name \in ExplicitHeaders(lines) :
                  /\ lines[s.section_positions[name] + 1] = name
                  /\ \A j \in 1..s.section_positions[name] : lines[j] # name
                  /\ \A k \in (s.section_positions[name] + 1)..Len(lines) :
                        analyze_sections(AddHeaderLine(lines, k, name),
                                         doc.sections.infer).section_positions[name]
                            = s.section_positions[name]
                  /\ Count(lines, name) > 1 => name \in Range(s.duplicated_sections)
            /\ Len(s.duplicated_sections) = Cardinality(Range(s.duplicated_sections))
            /\ Range(s.duplicated_sections) \subseteq s.detected_sections

C18_Witness ==
    /\ pc = "detected"
    /\ \E name \in ExplicitHeaders(doc.sections.lines) :
          /\ Count(doc.sections.lines, name) > 1
          /\ analysis.sections.section_positions[name] > 0
          /\ name \in Range(analysis.sections.duplicated_sections)

\* C19: identify_section never returns 'education' for a line that contains
\* a degree or GPA term, on any of its matching paths (exact match, short-line
\* keyword containment, special prefix patterns).
C19_NoEducationForDegreeLines ==
    header = "education" => ~line.degree_term

\* C20: when no date pattern matches the text, the chronology analysis has
\* has_dates false, severity 'critical' and total_date_ranges 0, and the dates
\* category score is 0; when at least one matches, has_dates is true, severity
\* is 'low' or 'medium', and the dates category score is 100, 60 or 40.
C20_DatesPresence ==
    Scored =>
        LET c == analysis.chronology
            score == final_score.category_scores.dates
        IN  IF doc.chronology.dates = <<>>
            THEN /\ c.has_dates = FALSE
                 /\ c.severity = "critical"
                 /\ c.total_date_ranges = 0
                 /\ score = 0
            ELSE /\ c.has_dates = TRUE
                 /\ c.severity \in {"low", "medium"}
                 /\ c.total_date_ranges = Len(DateRanges(doc.chronology.dates))
                 /\ score \in {100 * Scale, 60 * Scale, 40 * Scale}

C20_Witness ==
    /\ pc = "scored"
    /\ Len(doc.chronology.dates) = 2
    /\ analysis.chronology.severity = "medium"
    /\ final_score.category_scores.dates = 40 * Scale

\* the years written in the document, in reading order
YearsInReadingOrder(dates) ==
    ConcatAll([i \in 1..Len(dates) |->
        <<dates[i].year>> \o (IF dates[i].end # 0 THEN <<dates[i].end>> ELSE <<>>)])

\* C21: the chronological-order check reports no issue exactly when the years
\* of the date matches, taken in the order the dates appear in the document,
\* are non-increasing (most recent first); a violation yields exactly one
\* order-issue entry, however many pairs are out of order.
C21_OrderIssueIffNotDescending ==
    Detected /\ doc.chronology.dates # <<>> =>
        LET years == YearsInReadingOrder(doc.chronology.dates)
            issues == analysis.chronology.chronological_order_issues
        IN  /\ Len(issues) <= 1
            /\ issues = <<>> <=>
                   \A i \in 1..(Len(years) - 1) : years[i] >= years[i + 1]

InferredFrom(top, start) ==
    LET rest == SubSeq(top, start, Len(top))
        most == Min(3, Len(rest))
        n == CHOOSE n \in 0..most :
                /\ \A j \in 1..n : ~rest[j].header_like
                /\ n = most \/ rest[n + 1].header_like
    IN  SubSeq(rest, 1, n)

AcceptedIffReasonable(block) ==
    LET s == analysis.summary_analysis
        word_count == WordCount(block)
    IN  /\ s.has_summary <=> (15 <= word_count /\ word_count <= 80)
        /\ s.has_summary => s.word_count = word_count
        /\ ~s.has_summary =>
              /\ s.quality_score = 0
              /\ final_score.category_scores.summary = 0

C25_SkillBalance ==
    Detected =>
        LET t == doc.skills.technical
            s == doc.skills.soft
            balance == analysis.skills_analysis.skill_balance.balance
            above == 20 * t > 17 * (t + s)
            below == 10 * t < 3 * (t + s)
        IN  /\ balance \in {"no_skills", "no_technical", "no_soft", "tech_heavy",
                            "soft_heavy", "balanced"}
            /\ balance = "no_skills" <=> t + s = 0
            /\ balance = "no_technical" <=> t = 0 /\ s > 0
            /\ balance = "no_soft" <=> t > 0 /\ s = 0
            /\ balance = "tech_heavy" <=> t > 0 /\ s > 0 /\ above
            /\ balance = "soft_heavy" <=> t > 0 /\ s > 0 /\ ~above /\ below
            /\ balance = "balanced" <=> t > 0 /\ s > 0 /\ ~above /\ ~below

C25_Witness ==
    /\ pc = "detected"
    /\ doc.skills.technical = 17
    /\ doc.skills.soft = 3
    /\ analysis.skills_analysis.skill_balance.balance = "balanced"

\* C26: modernization_score equals max(100 - 10 x the sum of the severity
\* weights, 0) over the outdated section types found, with weights high 3,
\* medium 2, low 1; each of the five types (references, objective,
\* personal-info, hobbies, salary) is counted at most once, and the
\* unnecessary_sections category score equals modernization_score.
C26_ModernizationScore ==
    Scored =>
        LET u == analysis.unnecessary_sections
            found == doc.outdated
            high == Cardinality(found \cap {"personal_info", "salary_expectations"})
            medium == Cardinality(found \cap {"references", "objective"})
            low == Cardinality(found \cap {"hobbies_interests"})
        IN  /\ u.total_issues = Cardinality(found)
            /\ u.total_issues <= 5
            /\ u.modernization_score = Max(100 - 10 * (3 * high + 2 * medium + low), 0)
            /\ final_score.category_scores.unnecessary_sections
                   = u.modernization_score * Scale

C26_Witness ==
    /\ pc = "scored"
    /\ analysis.unnecessary_sections.total_issues = 5
    /\ analysis.unnecessary_sections.modernization_score = 0
    /\ final_score.category_scores.unnecessary_sections = 0

\* C27: resume_scorer.main returns the error result with code
\* 'missing_experience_projects' and no score exactly when
\* detect_explicit_headers_only finds neither an explicit experience header
\* nor an explicit projects header; in every other successful run the
\* reported score is analyze_resume's final_score and the performance tier
\* is derived from that same score, and the legacy calculate_score hard gate
\* is never consulted: a report carries no critical_failure key, whatever
\* sections are detected.
C27_MainGate ==
    pc = "exited" =>
        /\ ("code" \in DOMAIN result /\ result.code = "missing_experience_projects")
               <=> /\ input_kind = "parsed"
                   /\ "experience" \notin explicit_headers
                   /\ "projects" \notin explicit_headers
        /\ "code" \in DOMAIN result => ~result.success /\ "score" \notin DOMAIN result
        /\ input_kind = "parsed" /\ "code" \notin DOMAIN result =>
              /\ result.success
              /\ result.score = final_score.final_score
              /\ result.breakdown = final_score.category_scores
              /\ "critical_failure" \notin DOMAIN result
              /\ result.performance_tier =
                    CASE result.score >= 8500 -> "Exceptional"
                      [] result.score < 8500 /\ result.score >= 7000 -> "Strong"
                      [] result.score < 7000 /\ result.score >= 5500 -> "Good"
                      [] result.score < 5500 /\ result.score >= 4000 -> "Developing"
                      [] OTHER -> "Needs Work"

C27_Witness ==
    /\ pc = "exited"
    /\ result.success
    /\ explicit_headers = {"projects"}
    /\ ~(CriticalSections \subseteq analysis.sections.detected_sections)
    /\ result.score > 0
    /\ result.performance_tier = "Developing"

\* C28: when all critical sections are present, calculate_score's total
\* equals the sum of its six breakdown components, each component stays in
\* its stated range (ats_compatibility 0-25, content_quality 0-30,
\* keyword_optimization 0-20, structure 0-15, achievement_impact 0-10,
\* language_quality 0-5), and the total is out of 100: it never exceeds 100.
C28_LegacyTotal ==
    pc = "scored" /\ doc.has_all_critical =>
        LET b == result.breakdown
        IN  /\ result.total = b.ats_compatibility + b.content_quality
                              + b.keyword_optimization + b.structure
                              + b.achievement_impact + b.language_quality
            /\ b.ats_compatibility \in 0..25
            /\ b.content_quality \in 0..30
            /\ b.keyword_optimization \in 0..20
            /\ b.structure \in 0..15
            /\ b.achievement_impact \in 0..10
            /\ b.language_quality \in 0..5
            /\ result.total <= 100


\* the grade bands applied to a reported final_score, in hundredths
GradeOfReported(reported) ==
    IF reported >= 90 * 100 THEN "A"
    ELSE IF reported >= 80 * 100 THEN "B"
    ELSE IF reported >= 70 * 100 THEN "C"
    ELSE IF reported >= 60 * 100 THEN "D"
    ELSE "F"

\* C29: the grade in the FinalScore object is the one the grade bands give
\* for the reported, 2-decimal rounded final_score, also when the score lies
\* just below a band boundary.
C29_GradeAgreesWithReported ==
    Scored => final_score.grade = GradeOfReported(final_score.final_score)

\* C30: every deduplicated bullet is in exactly one of the strong, weak and
\* no-verb lists, so the three counts add up to total_bullets; the bullets
\* whose first word is a strong verb are the strong ones; and
\* strong_percentage + weak_percentage never exceeds 100.
C30_VerbPartition ==
    pc = "verbs_analyzed" =>
        LET bullets == Dedup(ExtractBullets(doc.bullets))
        IN  /\ result.total_bullets = Len(bullets)
            /\ result.strong_verb_count + result.weak_verb_count
                   + result.no_verb_count = result.total_bullets
            /\ result.strong_verb_count =
                   Cardinality({i \in 1..Len(bullets) :
                                   bullets[i].first \in StrongCategories})
            /\ ~FloatExceeds(FloatAdd(result.strong_percentage,
                                      result.weak_percentage), 100)
====
